---- MODULE Spec2Model ----
(***************************************************************************)
(* Model of the clip bot in src/main.py: the two slash-command handlers    *)
(* (clip, bookmarks), the shared asyncio queue, the worker tasks started   *)
(* by on_ready, process_clip with its notification calls, and the Post     *)
(* button of VideoPreview.                                                 *)
(*                                                                         *)
(* Every coroutine is modelled at the granularity of the asyncio event     *)
(* loop: one action is one resumption of a task, from the await it was     *)
(* suspended at up to the next await that really suspends.  `await         *)
(* queue.put(x)` on the unbounded queue and the synchronous                *)
(* get_user_flags never suspend, so they are part of the step around them. *)
(*                                                                         *)
(* Texts are sequences of one-character strings.                           *)
(*                                                                         *)
(* Spec and FairSpec follow the whole bot; PublishSpec follows the Post    *)
(* button of one delivered clip; ParseSpec follows get_route and           *)
(* get_route_and_time on one text; ExtractSpec follows the bookmarks       *)
(* command with get_user_flags taken thread by thread.                     *)
(***************************************************************************)
EXTENDS Integers, Sequences, FiniteSets, TLC

(***************************************************************************)
(* Bounds of the model.                                                    *)
(***************************************************************************)
MaxRequests == 2
MaxWorkers == 2
MaxClicks == 3

(***************************************************************************)
(* Text helpers: Python's str/re primitives used by main.py.               *)
(***************************************************************************)
IsSpace(c) == c \in {" ", "\t", "\n", "\r", "\f"}

IsDigit(c) == c \in {"0", "1", "2", "3", "4", "5", "6", "7", "8", "9"}

DigitVal(c) ==
  CASE c = "0" -> 0 [] c = "1" -> 1 [] c = "2" -> 2 [] c = "3" -> 3
    [] c = "4" -> 4 [] c = "5" -> 5 [] c = "6" -> 6 [] c = "7" -> 7
    [] c = "8" -> 8 [] c = "9" -> 9

\* \S{n} at position i
NonSpaceRun(t, i, n) ==
  /\ i + n - 1 <= Len(t)
  /\ \A k \in i..(i + n - 1) : ~IsSpace(t[k])

\* last index of the maximal run of digits starting at i (i-1 when there is none): greedy \d+
DigitsEnd(t, i) ==
  CHOOSE e \in (i - 1)..Len(t) :
    /\ \A k \in i..e : IsDigit(t[k])
    /\ (e = Len(t) \/ ~IsDigit(t[e + 1]))

\* last index of the maximal run of non-space characters starting at i: greedy \S+
NonSpaceEnd(t, i) ==
  CHOOSE e \in (i - 1)..Len(t) :
    /\ \A k \in i..e : ~IsSpace(t[k])
    /\ (e = Len(t) \/ IsSpace(t[e + 1]))

StartsWith(t, p) ==
  /\ Len(p) <= Len(t)
  /\ \A k \in 1..Len(p) : t[k] = p[k]

\* smallest index k >= i with t[k] in S, Len(t)+1 when there is none
IndexOfAny(t, i, S) ==
  CHOOSE k \in i..(Len(t) + 1) :
    /\ (k <= Len(t) => t[k] \in S)
    /\ \A m \in i..(k - 1) : t[m] \notin S

\* last index k with t[k] = c, 0 when there is none: str.rfind
LastIndexOf(t, c) ==
  CHOOSE k \in 0..Len(t) :
    /\ (k > 0 => t[k] = c)
    /\ \A m \in (k + 1)..Len(t) : t[m] # c

\* str.split(sep) for a one-character separator
RECURSIVE Split(_, _)
Split(t, sep) ==
  LET i == IndexOfAny(t, 1, {sep})
  IN IF i > Len(t) THEN <<t>>
     ELSE <<SubSeq(t, 1, i - 1)>> \o Split(SubSeq(t, i + 1, Len(t)), sep)

\* sep.join(parts)
RECURSIVE Join(_, _)
Join(parts, sep) ==
  IF Len(parts) = 0 THEN <<>>
  ELSE IF Len(parts) = 1 THEN parts[1]
  ELSE parts[1] \o <<sep>> \o Join(Tail(parts), sep)

\* int(s) for a string of decimal digits
RECURSIVE ParseInt(_)
ParseInt(s) ==
  IF Len(s) = 0 THEN 0
  ELSE ParseInt(SubSeq(s, 1, Len(s) - 1)) * 10 + DigitVal(s[Len(s)])

\* re.match gives None when the pattern does not match at position 0; a
\* match of these patterns is never empty, so the empty text stands for None
NoMatch == <<>>

\* link_regex.match(t).group(): https?://\S+
link_regex(t) ==
  LET k == IF StartsWith(t, <<"h", "t", "t", "p", "s", ":", "/", "/">>) THEN 9
           ELSE IF StartsWith(t, <<"h", "t", "t", "p", ":", "/", "/">>) THEN 8
           ELSE 0
  IN IF k = 0 THEN NoMatch
     ELSE LET e == NonSpaceEnd(t, k)
          IN IF e < k THEN NoMatch ELSE SubSeq(t, 1, e)

\* route_regex.match(t).group(): \S{16}\/\S{8}--\S{10}
route_regex(t) ==
  IF /\ Len(t) >= 37
     /\ NonSpaceRun(t, 1, 16)
     /\ t[17] = "/"
     /\ NonSpaceRun(t, 18, 8)
     /\ t[26] = "-"
     /\ t[27] = "-"
     /\ NonSpaceRun(t, 28, 10)
  THEN SubSeq(t, 1, 37)
  ELSE NoMatch

\* route_with_time_regex.match(t).group(): \S{16}\/\S{8}--\S{10}\/\d+\/\d+
route_with_time_regex(t) ==
  IF route_regex(t) = NoMatch \/ Len(t) < 39 \/ t[38] # "/" THEN NoMatch
  ELSE LET e1 == DigitsEnd(t, 39)
       IN IF e1 < 39 \/ e1 + 2 > Len(t) \/ t[e1 + 1] # "/" THEN NoMatch
          ELSE LET e2 == DigitsEnd(t, e1 + 2)
               IN IF e2 < e1 + 2 THEN NoMatch ELSE SubSeq(t, 1, e2)

\* urlparse(url): url is a match of link_regex, so the scheme is http or
\* https and "//" follows it.  The netloc runs to the first of / ? #, the
\* fragment and the query are cut off, and for http(s) the parameters of the
\* last path segment (after ";") are cut off too.  A netloc with an unpaired
\* bracket makes urlparse raise ValueError.
UrlNetlocStart(url) == IF url[5] = "s" THEN 9 ELSE 8

UrlRaises(url) ==
  LET k == UrlNetlocStart(url)
      d == IndexOfAny(url, k, {"/", "?", "#"})
      netloc == SubSeq(url, k, d - 1)
      has(c) == \E i \in 1..Len(netloc) : netloc[i] = c
  IN (has("[") /\ ~has("]")) \/ (has("]") /\ ~has("["))

UrlPath(url) ==
  LET k == UrlNetlocStart(url)
      d == IndexOfAny(url, k, {"/", "?", "#"})
      rest == SubSeq(url, d, Len(url))
      noFrag == SubSeq(rest, 1, IndexOfAny(rest, 1, {"#"}) - 1)
      noQuery == SubSeq(noFrag, 1, IndexOfAny(noFrag, 1, {"?"}) - 1)
      slash == LastIndexOf(noQuery, "/")
      semi == IndexOfAny(noQuery, IF slash = 0 THEN 1 ELSE slash, {";"})
  IN SubSeq(noQuery, 1, semi - 1)

\* the path matched as it is, with its leading "/"
DropFirst_Keep(t) == t

\* path[1:]
DropFirst(t) == IF Len(t) = 0 THEN t ELSE Tail(t)

\* The result of a parse: None, a value, or an exception leaving the function
PyNone == [kind |-> "None"]

PyRaise == [kind |-> "raise"]

get_route(route) ==
  LET link == link_regex(route)
  IN IF link # NoMatch /\ UrlRaises(link) THEN PyRaise
     ELSE LET m == IF link # NoMatch THEN route_regex(DropFirst(UrlPath(link)))
                   ELSE route_regex(route)
          IN IF m = NoMatch THEN PyNone
             ELSE [kind |-> "ok", route |-> m]

get_route_and_time(route) ==
  LET link == link_regex(route)
  IN IF link # NoMatch /\ UrlRaises(link) THEN PyRaise
     ELSE LET m == IF link # NoMatch
                   THEN route_with_time_regex(DropFirst(UrlPath(link)))
                   ELSE route_with_time_regex(route)
          IN IF m = NoMatch THEN PyNone
             ELSE LET parts == Split(m, "/")
                  IN \* start_str, end_str = route.split('/')[2:]
                     IF Len(parts) # 4 THEN PyRaise
                     ELSE [kind |-> "ok",
                           route |-> Join(SubSeq(parts, 1, 2), "/"),
                           start |-> ParseInt(parts[3]),
                           end |-> ParseInt(parts[4])]

(***************************************************************************)
(* get_user_flags.  The route's segments come from the external data       *)
(* source: a segment whose event fetch fails raises inside its pool        *)
(* thread, and executor.map never hands that exception to anybody because  *)
(* its result iterator is dropped.  list.append is atomic under the GIL    *)
(* and the list is sorted at the end, so the order of the threads does not *)
(* show in the result.                                                     *)
(***************************************************************************)
\* round(time_ms / 1000): Python rounds halves to the even neighbour
PyRound(time_ms) ==
  LET q == time_ms \div 1000
      r == time_ms % 1000
  IN IF r < 500 THEN q
     ELSE IF r > 500 THEN q + 1
     ELSE IF q % 2 = 0 THEN q ELSE q + 1

\* what process_segment appends for one segment
RECURSIVE process_segment(_)
process_segment(events) ==
  IF Len(events) = 0 THEN <<>>
  ELSE LET event == Head(events)
       IN (IF event.type = "user_flag"
           THEN <<PyRound(event.route_offset_millis)>>
           ELSE <<>>) \o process_segment(Tail(events))

RECURSIVE CollectFlags(_)
CollectFlags(segments) ==
  IF Len(segments) = 0 THEN <<>>
  ELSE (IF Head(segments).ok THEN process_segment(Head(segments).events) ELSE <<>>)
       \o CollectFlags(Tail(segments))

get_user_flags(segments) == SortSeq(CollectFlags(segments), LAMBDA a, b : a < b)

(***************************************************************************)
(* Inputs.                                                                 *)
(***************************************************************************)
RouteText == <<"a", "2", "a", "0", "c", "c", "e", "a", "3", "2", "0", "2", "3", "0", "1", "0", "/", "0", "0", "0", "0", "0", "1", "2", "3", "-", "-", "a", "b", "c", "d", "e", "f", "0", "1", "2", "3">>

ConnectPrefix == <<"h", "t", "t", "p", "s", ":", "/", "/", "c", "o", "n", "n", "e", "c", "t", ".", "c", "o", "m", "m", "a", ".", "a", "i", "/">>

Flag(ms) == [type |-> "user_flag", route_offset_millis |-> ms]

Other(ms) == [type |-> "other", route_offset_millis |-> ms]

Segment(events) == [ok |-> TRUE, events |-> events]

\* a segment whose events cannot be fetched: reading segment.events raises
FailedSegment(events) == [ok |-> FALSE, events |-> events]

\* the texts a requester gives to /clip
ClipTexts ==
  { RouteText \o <<"/", "1", "0", "/", "2", "0">>,
    RouteText \o <<"/", "0", "/", "3", "1">>,
    RouteText \o <<"/", "2", "0", "/", "1", "0">>,
    ConnectPrefix \o RouteText \o <<"/", "1", "0", "/", "2", "0">>,
    <<"h", "t", "t", "p", "s", ":", "/", "/", "[">>,
    <<"n", "o", "t", " ", "a", " ", "r", "o", "u", "t", "e">> }

\* the texts a requester gives to /bookmarks
BookmarkTexts == { RouteText, <<"n", "o", "t", " ", "a", " ", "r", "o", "u", "t", "e">> }

\* get_route_and_time and get_route of each of these texts, computed once
ClipParsed == [text \in ClipTexts |-> get_route_and_time(text)]

BookmarkParsed == [text \in BookmarkTexts |-> get_route(text)]

\* the text, or the path of the URL it starts with, has a match of
\* route_with_time_regex / of route_regex
RouteWithTimeMatch(text) ==
  LET link == link_regex(text)
  IN IF link = NoMatch THEN route_with_time_regex(text) # NoMatch
     ELSE /\ ~UrlRaises(link)
          /\ route_with_time_regex(DropFirst(UrlPath(link))) # NoMatch

RouteMatch(text) ==
  LET link == link_regex(text)
  IN IF link = NoMatch THEN route_regex(text) # NoMatch
     ELSE /\ ~UrlRaises(link)
          /\ route_regex(DropFirst(UrlPath(link))) # NoMatch

ClipMatches == [text \in ClipTexts |-> RouteWithTimeMatch(text)]

BookmarkMatches == [text \in BookmarkTexts |-> RouteMatch(text)]

\* what the data source holds for the route
RouteDatas ==
  { <<Segment(<<Other(100), Flag(12400)>>), Segment(<<Flag(1500)>>)>>,
    <<Segment(<<Other(100)>>)>>,
    <<FailedSegment(<<Flag(1500)>>)>> }

\* the routes a get_user_flags call is followed on, thread by thread
ExtractDatas ==
  RouteDatas \cup
  { <<Segment(<<Flag(1500)>>), Segment(<<Flag(500)>>), Segment(<<Flag(1500)>>)>>,
    <<Segment(<<Other(100), Flag(59800)>>), Segment(<<Flag(60300)>>)>>,
    <<Segment(<<Flag(12400)>>), FailedSegment(<<Flag(61500)>>)>> }

\* the values the environment variables are given
\* int(os.environ.get(...)) takes any integer: nothing checks its sign
MaxClipLens == {0, 10, 30}

WorkerCounts == 0..MaxWorkers

(***************************************************************************)
(* State.                                                                  *)
(***************************************************************************)
VARIABLES
  MAX_CLIP_LEN_S, \* main.py:15
  WORKERS,        \* main.py:16
  ready,          \* on_ready has run (it is registered once=True)
  queue,          \* main.py:91: the ids of the queued ClipRequests, oldest first
  unfinished,     \* the queue's count of items put and not yet task_done
  jobs,           \* every ClipRequest constructed so far, by id
  obs,            \* per ClipRequest: where it is, and the calls issued for it
  handlers,       \* the command invocations
  tasks,          \* the worker tasks
  procs,          \* the ids of the jobs whose renderer subprocess is running
  tmpdirs,        \* the ids of the jobs whose TemporaryDirectory exists
  view,           \* the VideoPreview of a delivered clip and its Post clicks
  typed,          \* the text a parse function is called with, in its parts
  located,        \* what get_route and get_route_and_time returned for it
  route_segments, \* main.py:145: route.segments of the get_user_flags call in progress
  threads,        \* main.py:156: the pool's work item of each segment
  user_flags_at_time, \* main.py:146: the list the pool threads append to
  extracted       \* main.py:158: what the get_user_flags call returned

parse_vars == <<typed, located>>

extract_vars == <<route_segments, threads, user_flags_at_time, extracted>>

bot_vars == <<MAX_CLIP_LEN_S, WORKERS, ready, queue, unfinished, jobs, obs,
              handlers, tasks, procs, tmpdirs, view>>

vars == <<MAX_CLIP_LEN_S, WORKERS, ready, queue, unfinished, jobs, obs,
          handlers, tasks, procs, tmpdirs, view, typed, located, route_segments,
          threads, user_flags_at_time, extracted>>

before_flag_buffer == 10

after_flag_buffer == 5

Requests == 1..MaxRequests

\* an on_ready that starts a task per pool slot, whatever WORKERS says
WorkerIds_AllSlots == 1..MaxWorkers

\* range(WORKERS) of on_ready
WorkerIds == 1..WORKERS

None == <<>>

Some(x) == <<x>>

\* text: the command's argument, until it is parsed; window: the parsed
\* start and end; reply: the message the handler answered with; told: the
\* number in the 'queued request, N in line ahead' message while the
\* handler is suspended in the ctx.edit that sends it
IdleHandler ==
  [pc |-> "idle", cmd |-> "-", text |-> <<>>, window |-> None, reply |-> "-",
   told |-> None]

NoTask == [pc |-> "none", job |-> 0]

\* phase: "queued" while the request is in the queue, "handling" while a
\* worker is in process_clip with it, and afterwards how process_clip ended:
\* "succeeded" (post_success returned), "failed" (a post_error returned) or
\* "abandoned" (an exception left process_clip).  calls and render describe
\* the handling in progress and are dropped with the request when it ends.
NewObs == [phase |-> "queued", calls |-> <<>>, render |-> "none"]

Ended(phase) == [phase |-> phase, calls |-> <<>>, render |-> "none"]

\* job: the request whose clip the view was sent with (0: no view is
\* followed); disabled: button.disabled of the view object; shown_disabled:
\* the message the user sees has been edited to show the button disabled;
\* clicks: where each post_button callback is; broadcasts: the
\* interaction.respond calls with the clip that have returned
NoView == [job |-> 0, disabled |-> FALSE, shown_disabled |-> FALSE,
           clicks |-> [c \in 1..MaxClicks |-> "idle"], broadcasts |-> 0]

\* the module as imported: the configuration read, the queue empty, no
\* task started
BotInit ==
  /\ MAX_CLIP_LEN_S \in MaxClipLens
  /\ WORKERS \in WorkerCounts
  /\ ready = FALSE
  /\ queue = <<>>
  /\ unfinished = 0
  /\ jobs = <<>>
  /\ obs = <<>>
  /\ handlers = [r \in Requests |-> IdleHandler]
  /\ tasks = [w \in 1..MaxWorkers |-> NoTask]
  /\ procs = {}
  /\ tmpdirs = {}
  /\ view = NoView

\* no parse function is followed
NoParse ==
  /\ typed = None
  /\ located = None

\* no get_user_flags call is in progress
NoExtraction ==
  /\ route_segments = <<>>
  /\ threads = <<>>
  /\ user_flags_at_time = <<>>
  /\ extracted = None

Init ==
  /\ NoParse
  /\ NoExtraction
  /\ BotInit

is_bookmark(request) == request.bookmark_time_sec # None

(***************************************************************************)
(* on_ready: one worker task per index of range(WORKERS).  A task runs up  *)
(* to its first `await queue.get()`.                                       *)
(***************************************************************************)
OnReady ==
  /\ ~ready
  /\ ready' = TRUE
  /\ tasks' = [w \in 1..MaxWorkers |->
                 IF w \in WorkerIds THEN [pc |-> "get", job |-> 0] ELSE NoTask]
  /\ UNCHANGED <<parse_vars, extract_vars, MAX_CLIP_LEN_S, WORKERS, queue, unfinished, jobs, obs,
                 handlers, procs, tmpdirs, view>>

\* invocations are numbered in the order they arrive
Earlier(r) == IF r = 1 THEN TRUE ELSE handlers[r - 1].pc # "idle"

(***************************************************************************)
(* The clip command.                                                       *)
(***************************************************************************)
\* the invocation runs to `await ctx.defer(ephemeral=True)`
ClipInvoke(r, text) ==
  /\ handlers[r].pc = "idle"
  /\ Earlier(r)
  /\ handlers' = [handlers EXCEPT ![r] =
                    [IdleHandler EXCEPT !.pc = "defer", !.cmd = "clip", !.text = text]]
  /\ UNCHANGED <<parse_vars, extract_vars, MAX_CLIP_LEN_S, WORKERS, ready, queue, unfinished, jobs, obs,
                 tasks, procs, tmpdirs, view>>

\* a length check that also rejects a window of exactly the maximum
TooLong_Ge(start, end) == end - start >= MAX_CLIP_LEN_S

\* `if end - start > MAX_CLIP_LEN_S`
TooLong(start, end) == end - start > MAX_CLIP_LEN_S

\* from the defer to the next await: a rejection message (after which the
\* handler only returns), an exception out of get_route_and_time, or the
\* 'queued request' message, whose text is built from queue.qsize() before
\* ctx.edit is awaited
ClipBody(r) ==
  /\ handlers[r].pc = "defer"
  /\ handlers[r].cmd = "clip"
  /\ LET parsed == ClipParsed[handlers[r].text]
         h == [handlers[r] EXCEPT !.text = <<>>]
     IN handlers' = [handlers EXCEPT ![r] =
          IF parsed.kind = "raise"
          THEN [h EXCEPT !.pc = "done", !.reply = "raised"]
          ELSE IF parsed.kind = "None"
          THEN [h EXCEPT !.pc = "done", !.reply = "invalid"]
          ELSE IF TooLong(parsed.start, parsed.end)
          THEN [h EXCEPT !.pc = "done", !.reply = "toolong",
                         !.window = <<parsed.start, parsed.end>>]
          ELSE [h EXCEPT !.pc = "edit", !.reply = "queued",
                         !.window = <<parsed.start, parsed.end>>,
                         !.told = Some(Len(queue))]]
  /\ UNCHANGED <<parse_vars, extract_vars, MAX_CLIP_LEN_S, WORKERS, ready, queue, unfinished, jobs, obs,
                 tasks, procs, tmpdirs, view>>

\* ctx.edit has returned: queue.put(ClipRequest(...))
ClipPut(r) ==
  /\ handlers[r].pc = "edit"
  /\ jobs' = Append(jobs, [ctx |-> r,
                           start_time |-> handlers[r].window[1],
                           end_time |-> handlers[r].window[2],
                           bookmark_time_sec |-> None])
  /\ obs' = Append(obs, NewObs)
  /\ queue' = Append(queue, Len(jobs) + 1)
  /\ unfinished' = unfinished + 1
  /\ handlers' = [handlers EXCEPT ![r].pc = "done", ![r].told = None]
  /\ UNCHANGED <<parse_vars, extract_vars, MAX_CLIP_LEN_S, WORKERS, ready, tasks, procs, tmpdirs, view>>

(***************************************************************************)
(* The bookmarks command.                                                  *)
(***************************************************************************)
\* `if ctx.author.bot: return`, else up to `await ctx.defer(ephemeral=True)`
BookmarksInvoke(r, text, bot) ==
  /\ handlers[r].pc = "idle"
  /\ Earlier(r)
  /\ handlers' = [handlers EXCEPT ![r] =
       IF bot
       THEN [IdleHandler EXCEPT !.pc = "done", !.cmd = "bookmarks", !.reply = "ignored"]
       ELSE [IdleHandler EXCEPT !.pc = "defer", !.cmd = "bookmarks", !.text = text]]
  /\ UNCHANGED <<parse_vars, extract_vars, MAX_CLIP_LEN_S, WORKERS, ready, queue, unfinished, jobs, obs,
                 tasks, procs, tmpdirs, view>>

\* the ClipRequest built for one flag
BookmarkRequest(r, flag) ==
  [ctx |-> r,
   start_time |-> flag - before_flag_buffer,
   end_time |-> flag + after_flag_buffer,
   bookmark_time_sec |-> Some(flag)]

\* ThreadPoolExecutor(max_workers=WORKERS * 8), which raises ValueError
\* when max_workers <= 0
max_workers == WORKERS * 8

\* from the defer to the final ctx.respond: get_route, get_user_flags, and
\* the loop that puts one request per flag
BookmarksBody(r, segments) ==
  /\ handlers[r].pc = "defer"
  /\ handlers[r].cmd = "bookmarks"
  /\ LET route == BookmarkParsed[handlers[r].text]
         flags == get_user_flags(segments)
         h == [handlers[r] EXCEPT !.text = <<>>, !.pc = "done"]
     IN IF route.kind # "ok"
        THEN /\ handlers' = [handlers EXCEPT ![r] =
                  [h EXCEPT !.reply = IF route.kind = "raise" THEN "raised" ELSE "invalid"]]
             /\ UNCHANGED <<queue, unfinished, jobs, obs>>
        ELSE IF max_workers <= 0
        THEN /\ handlers' = [handlers EXCEPT ![r] = [h EXCEPT !.reply = "raised"]]
             /\ UNCHANGED <<queue, unfinished, jobs, obs>>
        ELSE IF Len(flags) = 0
        THEN /\ handlers' = [handlers EXCEPT ![r] = [h EXCEPT !.reply = "nobookmarks"]]
             /\ UNCHANGED <<queue, unfinished, jobs, obs>>
        ELSE /\ handlers' = [handlers EXCEPT ![r] = [h EXCEPT !.reply = "batch"]]
             /\ jobs' = jobs \o [i \in 1..Len(flags) |-> BookmarkRequest(r, flags[i])]
             /\ obs' = obs \o [i \in 1..Len(flags) |-> NewObs]
             /\ queue' = queue \o [i \in 1..Len(flags) |-> Len(jobs) + i]
             /\ unfinished' = unfinished + Len(flags)
  /\ UNCHANGED <<parse_vars, extract_vars, MAX_CLIP_LEN_S, WORKERS, ready, tasks, procs, tmpdirs, view>>

(***************************************************************************)
(* The worker tasks: worker and process_clip.  A call on the request's     *)
(* ctx (post_processing_message, post_success, post_error) is an HTTP call *)
(* of the chat library: the task is suspended in it, and it either returns *)
(* or raises.  obs[j].calls lists the calls issued for job j, in order.    *)
(***************************************************************************)
Task(pc, j) == [pc |-> pc, job |-> j]

\* entering the try block: TemporaryDirectory() and the arguments, up to
\* `await asyncio.create_subprocess_exec(...)`; when the directory cannot be
\* made, the except clause calls post_error(str(e))
EnterTry(w, j, o, mkdir_ok) ==
  IF mkdir_ok
  THEN /\ obs' = o
       /\ tmpdirs' = tmpdirs \cup {j}
       /\ tasks' = [tasks EXCEPT ![w] = Task("spawn", j)]
  ELSE /\ obs' = [o EXCEPT ![j].render = "setup_failed",
                           ![j].calls = Append(@, "error_exc")]
       /\ tasks' = [tasks EXCEPT ![w] = Task("post_error_exc", j)]
       /\ UNCHANGED tmpdirs

\* a process_clip that sends the 'clipping ...' message for every request
WorkerGet_ProgressForAll(w, mkdir_ok) ==
  /\ tasks[w].pc = "get"
  /\ queue # <<>>
  /\ LET j == Head(queue)
         o == [obs EXCEPT ![j].phase = "handling"]
     IN /\ queue' = Tail(queue)
        /\ obs' = [o EXCEPT ![j].calls = Append(@, "progress")]
        /\ tasks' = [tasks EXCEPT ![w] = Task("progress", j)]
        /\ UNCHANGED tmpdirs
  /\ UNCHANGED <<parse_vars, extract_vars, MAX_CLIP_LEN_S, WORKERS, ready,
                 unfinished, jobs, handlers, procs, view>>

\* a worker that takes the request put last, not the one put first
WorkerGet_NewestFirst(w, mkdir_ok) ==
  /\ tasks[w].pc = "get"
  /\ queue # <<>>
  /\ LET j == queue[Len(queue)]
         o == [obs EXCEPT ![j].phase = "handling"]
     IN /\ queue' = SubSeq(queue, 1, Len(queue) - 1)
        /\ IF ~is_bookmark(jobs[j])
           THEN /\ obs' = [o EXCEPT ![j].calls = Append(@, "progress")]
                /\ tasks' = [tasks EXCEPT ![w] = Task("progress", j)]
                /\ UNCHANGED tmpdirs
           ELSE EnterTry(w, j, o, mkdir_ok)
  /\ UNCHANGED <<parse_vars, extract_vars, MAX_CLIP_LEN_S, WORKERS, ready,
                 unfinished, jobs, handlers, procs, view>>

\* `request = await queue.get()` returns, and process_clip runs to its
\* first await: the 'clipping ...' message unless the request is a bookmark
WorkerGet(w, mkdir_ok) ==
  /\ tasks[w].pc = "get"
  /\ queue # <<>>
  /\ LET j == Head(queue)
         o == [obs EXCEPT ![j].phase = "handling"]
     IN /\ queue' = Tail(queue)
        /\ IF ~is_bookmark(jobs[j])
           THEN /\ obs' = [o EXCEPT ![j].calls = Append(@, "progress")]
                /\ tasks' = [tasks EXCEPT ![w] = Task("progress", j)]
                /\ UNCHANGED tmpdirs
           ELSE EnterTry(w, j, o, mkdir_ok)
  /\ UNCHANGED <<parse_vars, extract_vars, MAX_CLIP_LEN_S, WORKERS, ready, unfinished, jobs, handlers,
                 procs, view>>

\* an exception leaves process_clip: the worker's finally runs
\* queue.task_done(), and the exception leaves the `while True` loop, which
\* ends the task
WorkerDies(w, j, o) ==
  /\ obs' = [o EXCEPT ![j] = Ended("abandoned")]
  /\ tasks' = [tasks EXCEPT ![w] = Task("dead", 0)]
  /\ unfinished' = unfinished - 1

\* process_clip returns to the worker: finally queue.task_done(), and the
\* loop goes back to `await queue.get()`
BackToGet(w, j, o, phase) ==
  /\ obs' = [o EXCEPT ![j] = Ended(phase)]
  /\ tasks' = [tasks EXCEPT ![w] = Task("get", 0)]
  /\ unfinished' = unfinished - 1

\* an except clause entered with the directory still in place
ExceptClause_KeepDir(w, j, o) ==
  /\ obs' = [o EXCEPT ![j].calls = Append(@, "error_exc")]
  /\ tmpdirs' = tmpdirs
  /\ tasks' = [tasks EXCEPT ![w] = Task("post_error_exc", j)]

\* a call awaited inside the with block raised: the directory is removed
\* and the except clause calls post_error(str(e))
ExceptClause(w, j, o) ==
  /\ obs' = [o EXCEPT ![j].calls = Append(@, "error_exc")]
  /\ tmpdirs' = tmpdirs \ {j}
  /\ tasks' = [tasks EXCEPT ![w] = Task("post_error_exc", j)]

\* the 'clipping ...' message returns or raises; it is awaited outside the
\* try block
ProgressDone(w, ok, mkdir_ok) ==
  /\ tasks[w].pc = "progress"
  /\ LET j == tasks[w].job
     IN IF ok
        THEN /\ EnterTry(w, j, obs, mkdir_ok)
             /\ UNCHANGED unfinished
        ELSE /\ WorkerDies(w, j, obs)
             /\ UNCHANGED tmpdirs
  /\ UNCHANGED <<parse_vars, extract_vars, MAX_CLIP_LEN_S, WORKERS, ready, queue, jobs, handlers, procs,
                 view>>

\* create_subprocess_exec returns the started renderer, or raises
SpawnDone(w, ok) ==
  /\ tasks[w].pc = "spawn"
  /\ LET j == tasks[w].job
     IN IF ok
        THEN /\ procs' = procs \cup {j}
             /\ tasks' = [tasks EXCEPT ![w] = Task("communicate", j)]
             /\ UNCHANGED <<obs, tmpdirs>>
        ELSE /\ ExceptClause(w, j, [obs EXCEPT ![j].render = "spawn_failed"])
             /\ UNCHANGED procs
  /\ UNCHANGED <<parse_vars, extract_vars, MAX_CLIP_LEN_S, WORKERS, ready, queue, unfinished, jobs,
                 handlers, view>>

\* how a renderer can end: a non-zero exit code, with a stderr that is
\* UTF-8 text or one that is not, or exit code 0 with or without the output
\* file at the path it was given
RenderOutcomes == {"rc_nonzero", "rc_nonzero_undecodable", "rc0_file", "rc0_nofile"}

\* a process_clip that hands the path to post_success without opening it:
\* exit code 0 counts as success whether or not the file is there
RendererExit_NoFileCheck(w, outcome) ==
  /\ tasks[w].pc = "communicate"
  /\ LET j == tasks[w].job
         o == [obs EXCEPT ![j].render = outcome]
     IN /\ procs' = procs \ {j}
        /\ IF outcome = "rc_nonzero"
           THEN /\ obs' = [o EXCEPT ![j].calls = Append(@, "error_stderr")]
                /\ tasks' = [tasks EXCEPT ![w] = Task("post_error_rc", j)]
                /\ UNCHANGED tmpdirs
           ELSE IF outcome \in {"rc0_file", "rc0_nofile"}
           THEN /\ obs' = [o EXCEPT ![j].calls = Append(@, "success")]
                /\ tasks' = [tasks EXCEPT ![w] = Task("post_success", j)]
                /\ UNCHANGED tmpdirs
           ELSE ExceptClause(w, j, o)
  /\ UNCHANGED <<parse_vars, extract_vars, MAX_CLIP_LEN_S, WORKERS, ready, queue, unfinished, jobs,
                 handlers, view>>

\* a process_clip whose post_success call comes after the with block: the
\* directory is removed before the success notification is sent
RendererExit_SuccessAfterWith(w, outcome) ==
  /\ tasks[w].pc = "communicate"
  /\ LET j == tasks[w].job
         o == [obs EXCEPT ![j].render = outcome]
     IN /\ procs' = procs \ {j}
        /\ IF outcome = "rc_nonzero"
           THEN /\ obs' = [o EXCEPT ![j].calls = Append(@, "error_stderr")]
                /\ tasks' = [tasks EXCEPT ![w] = Task("post_error_rc", j)]
                /\ UNCHANGED tmpdirs
           ELSE IF outcome = "rc0_file"
           THEN /\ obs' = [o EXCEPT ![j].calls = Append(@, "success")]
                /\ tasks' = [tasks EXCEPT ![w] = Task("post_success", j)]
                /\ tmpdirs' = tmpdirs \ {j}
           ELSE ExceptClause(w, j, o)
  /\ UNCHANGED <<parse_vars, extract_vars, MAX_CLIP_LEN_S, WORKERS, ready, queue, unfinished, jobs,
                 handlers, view>>

\* proc.communicate() returns.  returncode != 0: post_error(stderr.decode()),
\* where decode raises UnicodeDecodeError on bytes that are not UTF-8.
\* Otherwise discord.File(path) opens the file, which raises when the file
\* is missing, and post_success is called with it
RendererExit(w, outcome) ==
  /\ tasks[w].pc = "communicate"
  /\ LET j == tasks[w].job
         o == [obs EXCEPT ![j].render = outcome]
     IN /\ procs' = procs \ {j}
        /\ IF outcome = "rc_nonzero"
           THEN /\ obs' = [o EXCEPT ![j].calls = Append(@, "error_stderr")]
                /\ tasks' = [tasks EXCEPT ![w] = Task("post_error_rc", j)]
                /\ UNCHANGED tmpdirs
           ELSE IF outcome = "rc0_file"
           THEN /\ obs' = [o EXCEPT ![j].calls = Append(@, "success")]
                /\ tasks' = [tasks EXCEPT ![w] = Task("post_success", j)]
                /\ UNCHANGED tmpdirs
           ELSE ExceptClause(w, j, o)
  /\ UNCHANGED <<parse_vars, extract_vars, MAX_CLIP_LEN_S, WORKERS, ready, queue, unfinished, jobs,
                 handlers, view>>

\* post_error(stderr.decode()) of line 175 returns, and the with block ends,
\* or raises
PostErrorRcDone(w, ok) ==
  /\ tasks[w].pc = "post_error_rc"
  /\ LET j == tasks[w].job
     IN IF ok
        THEN /\ BackToGet(w, j, obs, "failed")
             /\ tmpdirs' = tmpdirs \ {j}
        ELSE /\ ExceptClause(w, j, obs)
             /\ UNCHANGED unfinished
  /\ UNCHANGED <<parse_vars, extract_vars, MAX_CLIP_LEN_S, WORKERS, ready, queue, jobs, handlers, procs,
                 view>>

\* post_success of line 177 returns, and the with block ends, or raises
PostSuccessDone(w, ok) ==
  /\ tasks[w].pc = "post_success"
  /\ LET j == tasks[w].job
     IN IF ok
        THEN /\ BackToGet(w, j, obs, "succeeded")
             /\ tmpdirs' = tmpdirs \ {j}
        ELSE /\ ExceptClause(w, j, obs)
             /\ UNCHANGED unfinished
  /\ UNCHANGED <<parse_vars, extract_vars, MAX_CLIP_LEN_S, WORKERS, ready, queue, jobs, handlers, procs,
                 view>>

\* post_error(str(e)) of the except clause returns or raises; nothing
\* catches what it raises
PostErrorExcDone(w, ok) ==
  /\ tasks[w].pc = "post_error_exc"
  /\ LET j == tasks[w].job
     IN IF ok
        THEN BackToGet(w, j, obs, "failed")
        ELSE WorkerDies(w, j, obs)
  /\ UNCHANGED <<parse_vars, extract_vars, MAX_CLIP_LEN_S, WORKERS, ready, queue, jobs, handlers, procs,
                 tmpdirs, view>>

(***************************************************************************)
(* The bot: commands arrive, the event loop resumes tasks.                 *)
(***************************************************************************)
Next ==
  \/ OnReady
  \/ \E r \in Requests, text \in ClipTexts : ClipInvoke(r, text)
  \/ \E r \in Requests : ClipBody(r)
  \/ \E r \in Requests : ClipPut(r)
  \/ \E r \in Requests, text \in BookmarkTexts, bot \in BOOLEAN :
       BookmarksInvoke(r, text, bot)
  \/ \E r \in Requests, segments \in RouteDatas : BookmarksBody(r, segments)
  \/ \E w \in 1..MaxWorkers, mkdir_ok \in BOOLEAN : WorkerGet(w, mkdir_ok)
  \/ \E w \in 1..MaxWorkers, ok \in BOOLEAN, mkdir_ok \in BOOLEAN :
       ProgressDone(w, ok, mkdir_ok)
  \/ \E w \in 1..MaxWorkers, ok \in BOOLEAN : SpawnDone(w, ok)
  \/ \E w \in 1..MaxWorkers, outcome \in RenderOutcomes : RendererExit(w, outcome)
  \/ \E w \in 1..MaxWorkers, ok \in BOOLEAN : PostErrorRcDone(w, ok)
  \/ \E w \in 1..MaxWorkers, ok \in BOOLEAN : PostSuccessDone(w, ok)
  \/ \E w \in 1..MaxWorkers, ok \in BOOLEAN : PostErrorExcDone(w, ok)

Spec == Init /\ [][Next]_vars

(***************************************************************************)
(* Fairness.  The event loop resumes every task whose awaited call has     *)
(* ended, every HTTP call of the chat library returns or raises, and every *)
(* renderer subprocess exits.  Nothing obliges a user to send a command.   *)
(***************************************************************************)
WorkerNext(w) ==
  \/ \E mkdir_ok \in BOOLEAN : WorkerGet(w, mkdir_ok)
  \/ \E ok \in BOOLEAN, mkdir_ok \in BOOLEAN : ProgressDone(w, ok, mkdir_ok)
  \/ \E ok \in BOOLEAN : SpawnDone(w, ok)
  \/ \E outcome \in RenderOutcomes : RendererExit(w, outcome)
  \/ \E ok \in BOOLEAN : PostErrorRcDone(w, ok)
  \/ \E ok \in BOOLEAN : PostSuccessDone(w, ok)
  \/ \E ok \in BOOLEAN : PostErrorExcDone(w, ok)

HandlerNext(r) ==
  \/ ClipBody(r)
  \/ ClipPut(r)
  \/ \E segments \in RouteDatas : BookmarksBody(r, segments)

Fairness ==
  /\ WF_vars(OnReady)
  /\ \A w \in 1..MaxWorkers : WF_vars(WorkerNext(w))
  /\ \A r \in Requests : WF_vars(HandlerNext(r))

FairSpec == Spec /\ Fairness

(***************************************************************************)
(* VideoPreview.post_button.  The chat library runs the callback for every *)
(* click interaction it receives; a user can click as long as the message  *)
(* they see shows the button enabled.  The Post button is followed from    *)
(* the state in which one request was handled and its clip delivered       *)
(* (post_success builds the view and sends it with the clip).              *)
(***************************************************************************)
\* a click arrives: the callback sets label, emoji, style and disabled of
\* the button and runs to `await interaction.response.edit_message(view=self)`
PostButton(c) ==
  /\ view.job # 0
  /\ view.clicks[c] = "idle"
  /\ IF c = 1 THEN TRUE ELSE view.clicks[c - 1] # "idle"
  /\ ~view.shown_disabled
  /\ view' = [view EXCEPT !.disabled = TRUE, !.clicks[c] = "edit_message"]
  /\ UNCHANGED <<parse_vars, extract_vars, MAX_CLIP_LEN_S, WORKERS, ready, queue, unfinished, jobs, obs,
                 handlers, tasks, procs, tmpdirs>>

\* edit_message returns (the user now sees the view as it is: disabled) and
\* the callback runs to `await interaction.respond(content=..., file=self.vid)`;
\* or it raises, which ends the callback
EditMessageDone(c, ok) ==
  /\ view.clicks[c] = "edit_message"
  /\ view' = IF ok
             THEN [view EXCEPT !.shown_disabled = view.disabled,
                               !.clicks[c] = "respond"]
             ELSE [view EXCEPT !.clicks[c] = "raised"]
  /\ UNCHANGED <<parse_vars, extract_vars, MAX_CLIP_LEN_S, WORKERS, ready, queue, unfinished, jobs, obs,
                 handlers, tasks, procs, tmpdirs>>

\* interaction.respond returns, the clip is posted to the channel; or it raises
RespondDone(c, ok) ==
  /\ view.clicks[c] = "respond"
  /\ view' = IF ok
             THEN [view EXCEPT !.broadcasts = @ + 1, !.clicks[c] = "done"]
             ELSE [view EXCEPT !.clicks[c] = "raised"]
  /\ UNCHANGED <<parse_vars, extract_vars, MAX_CLIP_LEN_S, WORKERS, ready, queue, unfinished, jobs, obs,
                 handlers, tasks, procs, tmpdirs>>

\* one request (an explicit clip or one bookmark) was handled by worker 1
\* and post_success returned
DeliveredRequests ==
  { [ctx |-> 1, start_time |-> 10, end_time |-> 20, bookmark_time_sec |-> None],
    BookmarkRequest(1, 12) }

PublishInit ==
  /\ NoParse
  /\ NoExtraction
  /\ MAX_CLIP_LEN_S \in MaxClipLens
  /\ WORKERS \in WorkerCounts
  /\ ready = TRUE
  /\ queue = <<>>
  /\ unfinished = 0
  /\ \E request \in DeliveredRequests :
       /\ jobs = <<request>>
       /\ handlers = [r \in Requests |->
            IF r = 1
            THEN [IdleHandler EXCEPT
                    !.pc = "done",
                    !.cmd = IF is_bookmark(request) THEN "bookmarks" ELSE "clip",
                    !.reply = IF is_bookmark(request) THEN "batch" ELSE "queued",
                    !.window = IF is_bookmark(request) THEN None ELSE <<10, 20>>]
            ELSE IdleHandler]
  /\ obs = <<Ended("succeeded")>>
  /\ tasks = [w \in 1..MaxWorkers |->
                IF w \in WorkerIds THEN Task("get", 0) ELSE NoTask]
  /\ procs = {}
  /\ tmpdirs = {}
  /\ view = [NoView EXCEPT !.job = 1]

PublishNext ==
  \/ \E c \in 1..MaxClicks : PostButton(c)
  \/ \E c \in 1..MaxClicks, ok \in BOOLEAN : EditMessageDone(c, ok)
  \/ \E c \in 1..MaxClicks, ok \in BOOLEAN : RespondDone(c, ok)

PublishSpec == PublishInit /\ [][PublishNext]_vars

(***************************************************************************)
(* get_route and get_route_and_time, called on a text in its bare form and *)
(* in its URL form (CONNECT_URL + '/' + text).  A text is kept in its      *)
(* parts: a route, the two integers and what follows them; a text that is  *)
(* no route at all has an empty route and is all tail.                     *)
(***************************************************************************)
\* a route text that has 10 characters, not 8, before its first "--"
ExampleRoute ==
  <<"a", "b", "c", "d", "e", "f", "g", "h", "1", "2", "3", "4", "5", "6", "7", "8", "/", "2", "0", "2", "4", "-", "0", "1", "-", "0", "1", "-", "-", "0", "0", "-", "0", "0", "-", "0", "0", "-", "-", "x", "y">>

TypedRoutes ==
  { RouteText,
    <<"a", "2", "a", "0", "c", "c", "e", "a", "3", "2", "0", "2", "3", "0", "1", "0", "/", "0", "0", "0", "0", "0", "1", "2", "3", "-", "-", "a", "b", "c", "d", "e", "f", "0", "1", "2", ";">>,
    <<"a", "2", "a", "0", "c", "c", "e", "a", "3", "2", "0", "2", "#", "0", "1", "0", "/", "0", "0", "0", "0", "0", "1", "2", "3", "-", "-", "a", "b", "c", "d", "e", "f", "0", "1", "2", "3">>,
    <<"a", "2", "a", "0", "c", "c", "e", "a", "3", "2", "0", "2", "3", "0", "1", "0", "/", "0", "0", "0", "0", "0", "1", "2", "3", "-", "-", "a", "b", "c", "?", "e", "f", "0", "1", "2", "3">>,
    <<"a", "2", "a", "0", "c", "c", "e", "a", "3", "2", "0", "2", "3", "0", "1", "0", "/", "0", "0", "0", "0", "/", "1", "2", "3", "-", "-", "a", "b", "c", "d", "e", "f", "0", "1", "2", "3">>,
    <<"h", "t", "t", "p", ":", "/", "/", "a", "b", "c", "d", "e", "f", "g", "h", "i", "/", "1", "2", "3", "4", "5", "6", "7", "8", "-", "-", "1", "2", "3", "4", "5", "6", "7", "8", "9", "0">>,
    ExampleRoute }

TypedStarts == { <<"1", "0">>, <<"0", "0", "7">> }

TypedEnds == { <<"2", "0">>, <<"5">> }

TypedTails ==
  { <<>>, <<"?", "x", "=", "1">>, <<" ", "h", "i">>, <<"/", "m", "o", "r", "e">>,
    <<"a", "b", "c">>, <<"5">> }

OtherTexts ==
  { <<"n", "o", "t", " ", "a", " ", "r", "o", "u", "t", "e">>,
    <<"h", "t", "t", "p", "s", ":", "/", "/", "[">>,
    RouteText }

Typed ==
  [route : TypedRoutes, start : TypedStarts, end : TypedEnds, tail : TypedTails]
  \cup [route : {<<>>}, start : {<<>>}, end : {<<>>}, tail : OtherTexts]

\* the text as the requester gives it
BareText(t) ==
  IF t.route = <<>> THEN t.tail
  ELSE t.route \o <<"/">> \o t.start \o <<"/">> \o t.end \o t.tail

FormText(t, form) ==
  IF form = "url" THEN ConnectPrefix \o BareText(t) ELSE BareText(t)

Forms == {"bare", "url"}

ParseCalls == {"get_route_and_time", "get_route"} \X Forms

NotCalled == [kind |-> "-"]

\* the two functions on both forms of each of these texts, computed once
TypedParsed ==
  [t \in Typed |->
     [c \in ParseCalls |->
        IF c[1] = "get_route_and_time"
        THEN get_route_and_time(FormText(t, c[2]))
        ELSE get_route(FormText(t, c[2]))]]

GetRouteAndTimeCall(form) ==
  /\ located[<<"get_route_and_time", form>>] = NotCalled
  /\ located' = [located EXCEPT ![<<"get_route_and_time", form>>] =
                    TypedParsed[typed][<<"get_route_and_time", form>>]]
  /\ UNCHANGED <<typed, extract_vars, bot_vars>>

GetRouteCall(form) ==
  /\ located[<<"get_route", form>>] = NotCalled
  /\ located' = [located EXCEPT ![<<"get_route", form>>] =
                    TypedParsed[typed][<<"get_route", form>>]]
  /\ UNCHANGED <<typed, extract_vars, bot_vars>>

ParseInit ==
  /\ typed \in Typed
  /\ located = [c \in ParseCalls |-> NotCalled]
  /\ NoExtraction
  /\ BotInit

ParseNext ==
  \/ \E form \in Forms : GetRouteAndTimeCall(form)
  \/ \E form \in Forms : GetRouteCall(form)

ParseSpec == ParseInit /\ [][ParseNext]_vars

(***************************************************************************)
(* get_user_flags, thread by thread, inside the bookmarks command.  The    *)
(* call is synchronous: no other task of the event loop runs during it,    *)
(* but the pool threads it starts run concurrently with each other.        *)
(* executor.map submits one work item per segment; the pool runs at most   *)
(* max_workers of them at a time and takes them in the order submitted.    *)
(* An exception raised in an item is kept in its future; the iterator of   *)
(* results that executor.map returns is dropped, so nobody ever sees it.   *)
(* Leaving the with block waits for every item.                            *)
(***************************************************************************)
PendingItem == [pc |-> "pending", at |-> 1]

\* from the defer to executor.map: get_route, Route(route), the executor
ExtractStart(r, segs) ==
  /\ handlers[r].pc = "defer"
  /\ handlers[r].cmd = "bookmarks"
  /\ LET route == BookmarkParsed[handlers[r].text]
         h == [handlers[r] EXCEPT !.text = <<>>]
     IN IF route.kind # "ok" \/ max_workers <= 0
        THEN /\ handlers' = [handlers EXCEPT ![r] =
                  [h EXCEPT !.pc = "done",
                            !.reply = IF route.kind = "None" THEN "invalid"
                                      ELSE "raised"]]
             /\ UNCHANGED extract_vars
        ELSE /\ handlers' = [handlers EXCEPT ![r] = [h EXCEPT !.pc = "extract"]]
             /\ route_segments' = segs
             /\ threads' = [i \in 1..Len(segs) |-> PendingItem]
             /\ user_flags_at_time' = <<>>
             /\ extracted' = None
  /\ UNCHANGED <<parse_vars, MAX_CLIP_LEN_S, WORKERS, ready, queue, unfinished,
                 jobs, obs, tasks, procs, tmpdirs, view>>

\* the work items a pool thread is running
Running == {i \in DOMAIN threads : threads[i].pc = "running"}

\* a pool thread takes the next work item and calls process_segment, which
\* reads segment.events
ThreadTake(i) ==
  /\ threads[i].pc = "pending"
  /\ \A k \in 1..(i - 1) : threads[k].pc # "pending"
  /\ Cardinality(Running) < max_workers
  /\ threads' = [threads EXCEPT ![i].pc =
                   IF ~route_segments[i].ok THEN "raised"
                   ELSE IF route_segments[i].events = <<>> THEN "done"
                   ELSE "running"]
  /\ UNCHANGED <<parse_vars, bot_vars, route_segments, user_flags_at_time,
                 extracted>>

\* one turn of the loop of process_segment: list.append is one atomic step
ThreadEvent(i) ==
  /\ threads[i].pc = "running"
  /\ LET event == route_segments[i].events[threads[i].at]
     IN user_flags_at_time' =
          IF event.type = "user_flag"
          THEN Append(user_flags_at_time, PyRound(event.route_offset_millis))
          ELSE user_flags_at_time
  /\ threads' = [threads EXCEPT
                   ![i].at = @ + 1,
                   ![i].pc = IF threads[i].at = Len(route_segments[i].events)
                             THEN "done" ELSE "running"]
  /\ UNCHANGED <<parse_vars, bot_vars, route_segments, extracted>>

\* a sort that gives the list back as the threads left it
sorted_AsAppended(list) == list

\* sorted(user_flags_at_time)
sorted(list) == SortSeq(list, LAMBDA a, b : a < b)

\* every work item has ended: the with block is left, get_user_flags
\* returns the sorted list, and bookmarks runs to its final ctx.respond
ExtractReturn(r) ==
  /\ handlers[r].pc = "extract"
  /\ \A i \in DOMAIN threads : threads[i].pc \in {"done", "raised"}
  /\ LET found == sorted(user_flags_at_time)
     IN /\ extracted' = Some(found)
        /\ IF Len(found) = 0
           THEN /\ handlers' = [handlers EXCEPT ![r].pc = "done",
                                                ![r].reply = "nobookmarks"]
                /\ UNCHANGED <<queue, unfinished, jobs, obs>>
           ELSE /\ handlers' = [handlers EXCEPT ![r].pc = "done",
                                                ![r].reply = "batch"]
                /\ jobs' = jobs \o [i \in 1..Len(found) |-> BookmarkRequest(r, found[i])]
                /\ obs' = obs \o [i \in 1..Len(found) |-> NewObs]
                /\ queue' = queue \o [i \in 1..Len(found) |-> Len(jobs) + i]
                /\ unfinished' = unfinished + Len(found)
  /\ UNCHANGED <<parse_vars, MAX_CLIP_LEN_S, WORKERS, ready, tasks, procs,
                 tmpdirs, view, route_segments, threads, user_flags_at_time>>

\* the event loop runs no other task while a handler is in get_user_flags
EventLoopFree == \A q \in Requests : handlers[q].pc # "extract"

ExtractNext ==
  \/ /\ EventLoopFree
     /\ \E r \in Requests, text \in BookmarkTexts, bot \in BOOLEAN :
          BookmarksInvoke(r, text, bot)
  \/ /\ EventLoopFree
     /\ \E r \in Requests, segs \in ExtractDatas : ExtractStart(r, segs)
  \/ \E i \in DOMAIN threads : ThreadTake(i)
  \/ \E i \in DOMAIN threads : ThreadEvent(i)
  \/ \E r \in Requests : ExtractReturn(r)

ExtractSpec == Init /\ [][ExtractNext]_vars

(***************************************************************************)
(* Properties.                                                             *)
(***************************************************************************)
JobIds == 1..Len(jobs)

\* a bookmarks command makes at most two requests (RouteDatas)
AllJobIds == 1..(2 * MaxRequests)

IsTerminalCall(call) == call \in {"success", "error_stderr", "error_exc"}

TerminalCalls(j) == SelectSeq(obs[j].calls, IsTerminalCall)

\* the workers that are in process_clip with job j
Holders(j) == {w \in 1..MaxWorkers : tasks[w].job = j}

\* C1: with WORKERS workers, never more than WORKERS renderer subprocesses
\* run at the same time, every running renderer belongs to a job that
\* exactly one worker is waiting on in proc.communicate(), and no worker
\* holds two jobs; so with 2 workers and 3 jobs a third renderer starts
\* only after one of the first two has exited.
C1_RendererBound ==
  /\ Cardinality(procs) <= WORKERS
  /\ \A j \in procs :
       /\ Cardinality(Holders(j)) = 1
       /\ \A w \in Holders(j) : tasks[w].pc = "communicate"
  /\ \A j \in JobIds : Cardinality(Holders(j)) <= 1

\* two renderers run while a third job waits in the queue of a pool of 2
C1_Witness ==
  /\ WORKERS = 2
  /\ Cardinality(procs) = 2
  /\ queue # <<>>

\* C2: for every job a worker dequeued, exactly one terminal notification
\* call (post_success or post_error) is issued: never a second one while it
\* is handled, and exactly one by the time its handling ends; and no
\* renderer is started for a job that already had one.
C2_ExactlyOneTerminal ==
  /\ [](\A j \in JobIds : Len(TerminalCalls(j)) <= 1)
  /\ [][\A j \in JobIds :
          (obs[j].phase = "handling" /\ obs'[j].phase # "handling")
            => Len(TerminalCalls(j)) = 1]_vars
  /\ [][\A j \in JobIds :
          (j \in procs' /\ j \notin procs) => obs[j].render = "none"]_vars

\* C3: a job goes queued -> handling -> (succeeded | failed) and makes no
\* other move; one worker at most holds it, and the worker that ends its
\* handling is the one that dequeued it.
C3_Lifecycle ==
  /\ [](\A j \in JobIds : Cardinality(Holders(j)) <= 1)
  /\ [][\A j \in JobIds :
          obs'[j].phase # obs[j].phase =>
            \/ /\ obs[j].phase = "queued"
               /\ obs'[j].phase = "handling"
               /\ Cardinality(Holders(j)') = 1
            \/ /\ obs[j].phase = "handling"
               /\ obs'[j].phase \in {"succeeded", "failed"}
               /\ \E w \in Holders(j) : tasks'[w] = Task("get", 0)]_vars

\* C4: no failure while handling a job ends a worker: once on_ready has
\* run, all WORKERS worker tasks are alive.
C4_WorkersAlive ==
  ready => \A w \in WorkerIds : tasks[w].pc \notin {"dead", "none"}

\* C5: every job that was enqueued eventually gets a terminal message
\* (its post_success or a post_error returns).
C5_EveryJobAnswered ==
  \A j \in AllJobIds :
    (j \in JobIds) ~> (j \in JobIds /\ obs[j].phase \in {"succeeded", "failed"})

\* post_success has been called for job j
SuccessCalled(j) == \E i \in 1..Len(obs[j].calls) : obs[j].calls[i] = "success"

C7_OneBroadcast == view.broadcasts <= 1

\* C8: a clip command is answered 'cannot make a clip longer than ...'
\* exactly when its parsed window has end - start > MAX_CLIP_LEN_S; a
\* command answered so is over and has put no request in the queue.
C8_TooLongRejected ==
  \A r \in Requests :
    /\ (handlers[r].cmd = "clip" /\ handlers[r].window # None)
         => (handlers[r].reply = "toolong"
               <=> handlers[r].window[2] - handlers[r].window[1] > MAX_CLIP_LEN_S)
    /\ handlers[r].reply = "toolong"
         => /\ handlers[r].pc = "done"
            /\ \A j \in JobIds : jobs[j].ctx # r

\* one command was rejected for its length while the queue held a job, and
\* another, whose window is exactly the maximum, was queued
C8_Witness ==
  \E r, s \in Requests :
    /\ handlers[r].reply = "toolong"
    /\ handlers[s].reply = "queued"
    /\ handlers[s].window[2] - handlers[s].window[1] = MAX_CLIP_LEN_S
    /\ Len(queue) = 1

\* C9: every request ever put in the queue has 0 <= start < end and
\* end - start <= MAX_CLIP_LEN_S.
C9_QueuedWindowsValid ==
  \A j \in JobIds :
    /\ 0 <= jobs[j].start_time
    /\ jobs[j].start_time < jobs[j].end_time
    /\ jobs[j].end_time - jobs[j].start_time <= MAX_CLIP_LEN_S

\* C10: the number told in 'queued request, N in line ahead' is the number
\* of requests in the queue at the moment the submitter's own request is put.
C10_ToldDepthAtPut ==
  [][\A r \in Requests :
       (handlers[r].pc = "edit" /\ handlers'[r].pc = "done")
         => handlers[r].told = Some(Len(queue))]_vars

\* C11: a command whose text has no route-with-window match (clip) or no
\* route match (bookmarks), or whose bookmark list is empty, is answered
\* with the rejection message at once and puts nothing in the queue: a
\* command answered with a rejection is over and has no request, and the
\* step that answers leaves the queue as it was.
C11_RejectionEnqueuesNothing ==
  /\ [](\A r \in Requests :
          handlers[r].reply \in {"invalid", "nobookmarks"}
            => /\ handlers[r].pc = "done"
               /\ \A j \in JobIds : jobs[j].ctx # r)
  /\ [][\A r \in Requests :
          (handlers[r].pc = "defer" /\ handlers'[r].pc # "defer")
            => /\ (handlers[r].cmd = "clip" /\ ~ClipMatches[handlers[r].text])
                    => (handlers'[r].reply = "invalid" /\ queue' = queue)
               /\ (handlers[r].cmd = "bookmarks"
                     /\ ~BookmarkMatches[handlers[r].text])
                    => (handlers'[r].reply = "invalid" /\ queue' = queue)
               /\ handlers'[r].reply = "nobookmarks" => queue' = queue
               /\ handlers'[r].reply = "batch" => Len(queue') > Len(queue)]_vars

\* the millisecond offsets of the user_flag events of a list of segments
RECURSIVE FlagMillis(_)
FlagMillis(segs) ==
  IF Len(segs) = 0 THEN {}
  ELSE {Head(segs).events[k].route_offset_millis :
          k \in {n \in 1..Len(Head(segs).events) :
                   Head(segs).events[n].type = "user_flag"}}
       \cup FlagMillis(Tail(segs))

AllFetched == \A i \in DOMAIN route_segments : route_segments[i].ok

\* C12: what get_user_flags returns is strictly ascending (so it has no
\* duplicates) and holds exactly the flag offsets of all segments, each
\* converted to seconds and rounded to the nearest integer, a half
\* upwards: flags at [1500, 500, 1500] give [1, 2].
C12_SortedDedupRounded ==
  (extracted # None /\ AllFetched)
    => LET found == extracted[1]
           NearestSecond(ms) == (ms + 500) \div 1000
       IN /\ \A i \in 1..(Len(found) - 1) : found[i] < found[i + 1]
          /\ {found[i] : i \in 1..Len(found)}
               = {NearestSecond(ms) : ms \in FlagMillis(route_segments)}

\* C13: when the event fetch of a segment fails, get_user_flags fails as a
\* whole: it never returns a list, and the bookmarks command never answers
\* 'no bookmarks found' or queues a batch after a failed fetch.
C13_FetchFailurePropagates ==
  /\ []((\E i \in DOMAIN threads : threads[i].pc = "raised") => extracted = None)
  /\ [][(\E i \in DOMAIN threads : threads[i].pc = "raised")
          => \A r \in Requests :
               handlers[r].pc = "extract"
                 => handlers'[r].reply \notin {"nobookmarks", "batch"}]_vars

\* C19: whatever the interleaving of the pool threads, get_user_flags
\* returns what processing the segments one after the other returns: no
\* offset is lost or duplicated and the order is the same.
C19_SameAsSequential ==
  extracted # None => extracted = Some(get_user_flags(route_segments))

\* the second segment's thread appended its flag before the first one's,
\* and the call returned
C19_Witness ==
  /\ extracted # None
  /\ Len(user_flags_at_time) >= 2
  /\ user_flags_at_time # extracted[1]

\* C14: for a non-empty offset list the bookmarks command puts exactly one
\* bookmark request per offset, in the order of the list, each with the
\* window [max(0, offset - 10), offset + 5].
C14_BatchWindowsClamped ==
  [][\A r \in Requests :
       (handlers[r].pc = "extract" /\ handlers'[r].pc = "done")
         => LET found == extracted'[1]
                batch == [i \in 1..Len(found) |->
                            [ctx |-> r,
                             start_time |-> IF found[i] - 10 < 0 THEN 0
                                            ELSE found[i] - 10,
                             end_time |-> found[i] + 5,
                             bookmark_time_sec |-> Some(found[i])]]
            IN /\ jobs' = jobs \o batch
               /\ queue' = queue \o [i \in 1..Len(found) |-> Len(jobs) + i]]_vars

\* the typed text is a route of the grammar, "/", digits, "/", digits
IsRouteWithWindow(t) == t.route # <<>> /\ route_regex(t.route) = t.route

HasChar(t, c) == \E i \in 1..Len(t) : t[i] = c

BareResult == located[<<"get_route_and_time", "bare">>]

UrlResult == located[<<"get_route_and_time", "url">>]

\* the triple the text spells out
Spelled(t) ==
  [kind |-> "ok", route |-> t.route, start |-> ParseInt(t.start),
   end |-> ParseInt(t.end)]

\* C15 as claimed: for every text t of the route-with-window grammar the URL
\* form CONNECT_URL/t and the bare form t parse to the same (route, start,
\* end); for t = 'abcdefgh12345678/2024-01-01--00-00-00--xy/10/20' both
\* give a route with start 10 and end 20.
C15_Original ==
  /\ (IsRouteWithWindow(typed) /\ typed.tail = <<>>
        /\ BareResult # NotCalled /\ UrlResult # NotCalled)
       => (BareResult.kind = "ok" /\ UrlResult = BareResult)
  /\ (typed.route = ExampleRoute /\ typed.tail = <<>>)
       => /\ BareResult # NotCalled
               => (BareResult.kind = "ok"
                     /\ BareResult.start = ParseInt(typed.start)
                     /\ BareResult.end = ParseInt(typed.end))
          /\ UrlResult # NotCalled
               => (UrlResult.kind = "ok"
                     /\ UrlResult.start = ParseInt(typed.start)
                     /\ UrlResult.end = ParseInt(typed.end))

\* C15 as amended: for every text t of the route-with-window grammar whose
\* tokens hold no '#' and no '?' and that does not begin with http:// or
\* https://, the URL form and the bare form give the same result: the
\* (route, start, end) that t spells out, or, when a '/' lies inside a
\* token, the same exception.  The text
\* 'abcdefgh12345678/2024-01-01--00-00-00--xy/<start>/<end>' is not of the
\* grammar and both forms give None.
C15_UrlAndBareAgree ==
  /\ (IsRouteWithWindow(typed) /\ typed.tail = <<>>
        /\ ~HasChar(typed.route, "#") /\ ~HasChar(typed.route, "?")
        /\ link_regex(typed.route) = NoMatch
        /\ BareResult # NotCalled /\ UrlResult # NotCalled)
       => /\ UrlResult = BareResult
          /\ BareResult = IF Len(Split(typed.route, "/")) = 2
                          THEN Spelled(typed) ELSE PyRaise
  /\ typed.route = ExampleRoute
       => /\ BareResult \in {NotCalled, PyNone}
          /\ UrlResult \in {NotCalled, PyNone}

\* both forms of <route>/10/20 were parsed, to the same route and window
C15_Witness ==
  /\ typed = [route |-> RouteText, start |-> <<"1", "0">>, end |-> <<"2", "0">>,
              tail |-> <<>>]
  /\ BareResult = Spelled(typed)
  /\ UrlResult = Spelled(typed)

\* C16: both functions match a prefix: a route-with-window text followed by
\* any text that does not continue the last integer gives exactly that
\* route, start and end from get_route_and_time and exactly that route from
\* get_route; a text with no prefix of the grammar gives None from both.
C16_PrefixMatch ==
  LET with_window == located[<<"get_route_and_time", "bare">>]
      route_only == located[<<"get_route", "bare">>]
  IN /\ (IsRouteWithWindow(typed)
           /\ (typed.tail = <<>> \/ ~IsDigit(typed.tail[1])))
          => /\ with_window \in {NotCalled, Spelled(typed)}
             /\ route_only \in {NotCalled, [kind |-> "ok", route |-> typed.route]}
     /\ route_regex(BareText(typed)) = NoMatch
          => /\ with_window \in {NotCalled, PyNone}
             /\ route_only \in {NotCalled, PyNone}

\* C17: the temporary directory made for a job exists only while one worker
\* is inside the with block for that job (starting the renderer, waiting
\* for it, or in the notification call of line 175 or 177): it is gone once
\* the except clause runs and once the handling has ended, on every path,
\* and no other worker holds that job.
C17_TempDirRemoved ==
  \A j \in JobIds :
    /\ j \in tmpdirs
         => /\ obs[j].phase = "handling"
            /\ Cardinality(Holders(j)) = 1
            /\ \A w \in Holders(j) :
                 tasks[w].pc \in {"spawn", "communicate", "post_error_rc",
                                  "post_success"}
    /\ obs[j].phase \in {"queued", "succeeded", "failed", "abandoned"}
         => j \notin tmpdirs

\* post_success raised for one job, whose directory is gone while the
\* except clause's post_error is awaited; another job's directory exists
C17_Witness ==
  \E j, k \in JobIds :
    /\ obs[j].render = "rc0_file"
    /\ \E w \in Holders(j) : tasks[w].pc = "post_error_exc"
    /\ j \notin tmpdirs
    /\ k \in tmpdirs

\* C18: the 'clipping ...' message is sent for a request exactly when it is
\* not a bookmark request, as the first call after it is dequeued and
\* before its directory and renderer exist; for a bookmark request the only
\* calls are terminal ones.
C18_ProgressOnlyForClips ==
  \A j \in JobIds :
    LET calls == obs[j].calls
        bookmark == jobs[j].bookmark_time_sec # None
    IN /\ obs[j].phase = "queued" => calls = <<>>
       /\ (obs[j].phase = "handling" /\ bookmark)
            => \A i \in 1..Len(calls) : IsTerminalCall(calls[i])
       /\ (obs[j].phase = "handling" /\ ~bookmark)
            => /\ calls # <<>>
               /\ calls[1] = "progress"
               /\ \A i \in 2..Len(calls) : IsTerminalCall(calls[i])
       /\ \A w \in Holders(j) :
            tasks[w].pc = "progress"
              => (j \notin procs /\ j \notin tmpdirs /\ obs[j].render = "none")

\* the renderers of a bookmark request and of a clip request are running:
\* no call was made for the first, the progress message for the second
C18_Witness ==
  \E j, k \in procs :
    /\ jobs[j].bookmark_time_sec # None
    /\ obs[j].calls = <<>>
    /\ jobs[k].bookmark_time_sec = None
    /\ obs[k].calls = <<"progress">>

\* C20: WORKERS and MAX_CLIP_LEN are checked to be positive at startup: a
\* bot configured with WORKERS <= 0 or MAX_CLIP_LEN <= 0 does not run, so
\* it never accepts a request into its queue.
C20_ConfigValidated ==
  (WORKERS <= 0 \/ MAX_CLIP_LEN_S <= 0) => (queue = <<>> /\ jobs = <<>>)

\* C22: get_route_and_time is total: for every text, bare or URL, the call
\* returns None or a (route, start, end) with integer start and end, and
\* never raises, also when a '/' falls inside a fixed-width token and the
\* matched text splits into more than four parts.
C22_Total ==
  \A form \in Forms :
    LET result == located[<<"get_route_and_time", form>>]
    IN result # NotCalled
         => \/ result = PyNone
            \/ /\ result.kind = "ok"
               /\ result.start \in Nat
               /\ result.end \in Nat

\* C23: the success notification of a job is sent while the job's temporary
\* directory is still there and holds the rendered file: the call is issued
\* with the directory in place, the directory stays for as long as the call
\* is in flight, and it is removed only on the step where that call returns
\* or raises; no success notification is issued for a job whose directory
\* has been removed.
C23_SuccessBeforeRemoval ==
  /\ [](\A w \in 1..MaxWorkers :
          tasks[w].pc = "post_success"
            => /\ tasks[w].job \in tmpdirs
               /\ obs[tasks[w].job].render = "rc0_file")
  /\ [][\A j \in JobIds :
          /\ (Len(obs'[j].calls) > Len(obs[j].calls)
                /\ obs'[j].calls[Len(obs'[j].calls)] = "success")
               => (j \in tmpdirs /\ j \in tmpdirs'
                     /\ \E w \in 1..MaxWorkers : tasks'[w] = Task("post_success", j))
          /\ (SuccessCalled(j) /\ j \in tmpdirs /\ j \notin tmpdirs')
               => \E w \in 1..MaxWorkers :
                    /\ tasks[w] = Task("post_success", j)
                    /\ tasks'[w].pc # "post_success"]_vars

\* a job whose success notification returned and whose directory is gone,
\* while another success notification is in flight with its directory there
C23_Witness ==
  \E j \in JobIds, w \in 1..MaxWorkers :
    /\ obs[j].phase = "succeeded"
    /\ j \notin tmpdirs
    /\ tasks[w].pc = "post_success"
    /\ tasks[w].job \in tmpdirs

\* the job is one request of a bookmarks command
InBatch(j) == is_bookmark(jobs[j])

\* a terminal call (post_success or post_error) is issued for job j on this
\* step
TerminalIssued(j) ==
  /\ Len(obs'[j].calls) > Len(obs[j].calls)
  /\ IsTerminalCall(obs'[j].calls[Len(obs'[j].calls)])

\* C21: jobs leave the queue in the order they were put (job ids count the
\* puts): the queue always holds the jobs not yet taken, oldest first, and a
\* worker takes the oldest.  The jobs of one bookmarks command were put one
\* after the other, in ascending order of their offsets, with no job of
\* another request between them.  With WORKERS = 1 the terminal
\* notifications are issued in the order of the puts: when one is issued
\* for a job, every older job has ended and no younger job has been taken.
C21_FifoAndBatchOrder ==
  /\ [](/\ \A p \in 1..Len(queue) : queue[p] = Len(jobs) - Len(queue) + p
        /\ \A j \in JobIds :
             obs[j].phase = "queued" <=> \E p \in 1..Len(queue) : queue[p] = j
        /\ \A i, k \in JobIds :
             (i < k /\ InBatch(i) /\ InBatch(k) /\ jobs[i].ctx = jobs[k].ctx)
               => /\ \A m \in i..k : InBatch(m) /\ jobs[m].ctx = jobs[i].ctx
                  /\ jobs[i].bookmark_time_sec[1] <= jobs[k].bookmark_time_sec[1])
  /\ [][/\ \A j \in JobIds :
             (obs[j].phase = "queued" /\ obs'[j].phase # "queued")
               => /\ j = Head(queue)
                  /\ queue' = Tail(queue)
                  /\ \A i \in 1..(j - 1) : obs[i].phase # "queued"
        /\ WORKERS = 1
             => \A j \in JobIds :
                  TerminalIssued(j)
                    => /\ \A i \in 1..(j - 1) :
                            obs'[i].phase \in {"succeeded", "failed", "abandoned"}
                       /\ \A k \in (j + 1)..Len(jobs') :
                            obs'[k].phase = "queued"]_vars

\* one worker; a clip request was put first and has ended, the first job of
\* a bookmarks command with two flags is in its terminal notification, and
\* the second is still in the queue
C21_Witness ==
  /\ WORKERS = 1
  /\ Len(jobs) = 3
  /\ ~InBatch(1) /\ InBatch(2) /\ InBatch(3)
  /\ jobs[2].bookmark_time_sec[1] < jobs[3].bookmark_time_sec[1]
  /\ obs[1].phase \in {"succeeded", "failed"}
  /\ tasks[1].job = 2
  /\ tasks[1].pc \in {"post_success", "post_error_rc", "post_error_exc"}
  /\ queue = <<3>>

====
